---- MODULE Spec2Model ----
(***************************************************************************)
(* Model of server/src/main.rs: the bootstrap sequence of the wallet       *)
(* server.  main() loads its configuration, registers the contracts with   *)
(* the node (init_node), builds eight modules one after the other on a     *)
(* ModulesHandler, hands the shared axum Router over to RestApi, then      *)
(* races handler.start_modules() against the process signals in a          *)
(* tokio::select! and finally calls handler.shutdown_modules().            *)
(*                                                                         *)
(* The collaborators (Conf::new, init_node, build_module, start_modules,   *)
(* shutdown_modules, the operating system's signals) are opaque: each of   *)
(* their results is a nondeterministic choice between Ok and Err.          *)
(***************************************************************************)
EXTENDS Integers, Sequences, FiniteSets, TLC

VARIABLES
    platform,       \* "unix" or "other": which #[cfg] block was compiled
    pc,             \* position of main
    exit,           \* how the process ended: "none" while it is alive
    initResult,     \* result of init::init_node
    failedStep,     \* the setup step whose `?` returned the error, or "none"
    router,         \* api_ctx.router : Mutex<Option<Router>>
    restRouter,     \* the `router` local moved into RestApiRunContext
    handler,        \* ModulesHandler: the modules built, in build order
    buildCalls,     \* number of build_module calls made
    failedBuild,    \* index of the build_module call that failed, 0 if none
    takes,          \* number of take() calls that yielded a router
    listened,       \* signal kinds for which the process installed a listener
    delivered,      \* signals the process has received during the race
    ctrlcReady,     \* the tokio::signal::ctrl_c() branch is ready
    terminateReady, \* the terminate.recv() branch is ready
    startState,     \* state of the handler.start_modules() future
    startCalls,     \* number of start_modules calls made
    winner,         \* the select! branch that ran, or "none"
    shutdownCalls,  \* number of shutdown_modules calls made
    shutdownArg,    \* the registry shutdown_modules was called on
    shutdownResult, \* the (discarded) result of shutdown_modules
    dataDir,        \* TRUE once config.data_directory has been created
    stoppedModule,  \* index of the module whose run loop ended, 0 if none
    shutdownOutcomes \* the per-module outcomes of the shutdown sweep

vars == <<platform, pc, exit, initResult, failedStep, router, restRouter,
          handler, buildCalls, failedBuild, takes, listened, delivered,
          ctrlcReady, terminateReady, startState, startCalls, winner,
          shutdownCalls, shutdownArg, shutdownResult,
                   dataDir, stoppedModule, shutdownOutcomes>>

Results == {"Ok", "Err"}

Platforms == {"unix", "other"}

Signals == {"SIGINT", "SIGTERM"}

(***************************************************************************)
(* The modules main builds before it takes the router, in source order.    *)
(* api is TRUE for the modules whose context carries api_ctx.              *)
(***************************************************************************)
PreTakeModules ==
    << [name |-> "AppModule",                   api |-> TRUE],
       [name |-> "ContractStateIndexer(wallet)", api |-> TRUE],
       [name |-> "ContractStateIndexer(oranj)",  api |-> TRUE],
       [name |-> "AutoProver(wallet)",           api |-> FALSE],
       [name |-> "AutoProver(oranj)",            api |-> FALSE],
       [name |-> "WebSocketModule",              api |-> FALSE],
       [name |-> "DAListener",                   api |-> FALSE] >>

RestApi == [name |-> "RestApi", api |-> FALSE]

AllModules == Append(PreTakeModules, RestApi)

Names(ms) == [i \in 1..Len(ms) |-> ms[i].name]

\* The setup steps of main that end in `?`, in source order.
SetupSteps == <<"conf", "tracing", "node_client", "indexer_client">>

\* Option<Router>: Some(router) carries the owners of the routes nested so far.
Some(routes) == [tag |-> "Some", routes |-> routes]

None == [tag |-> "None"]

Uncreated == [tag |-> "Uncreated"]

\* Option::take: leaves None in the slot and returns what was there.
OptionTakeCloned(slot) == [slot |-> slot, value |-> slot]

OptionTake(slot) == [slot |-> None, value |-> slot]

\* A module whose context carries api_ctx nests its routes into the router.
RegisterRoutes(slot, m) ==
    IF m.api /\ slot.tag = "Some" THEN Some(slot.routes \cup {m.name}) ELSE slot

TypeOK ==
    /\ platform \in Platforms
    /\ exit \in {"none", "Ok", "Err", "Panic", "Killed"}
    /\ initResult \in {"none"} \cup Results
    /\ buildCalls \in 0..Len(AllModules)
    /\ failedBuild \in 0..Len(AllModules)
    /\ takes \in 0..1
    /\ listened \subseteq Signals
    /\ delivered \subseteq Signals
    /\ ctrlcReady \in BOOLEAN
    /\ terminateReady \in BOOLEAN
    /\ startCalls \in 0..1
    /\ shutdownCalls \in 0..1
    /\ dataDir \in BOOLEAN
    /\ stoppedModule \in 0..Len(AllModules)

Init ==
    /\ platform \in Platforms
    /\ pc = "conf"
    /\ exit = "none"
    /\ initResult = "none"
    /\ failedStep = "none"
    /\ router = Uncreated
    /\ restRouter = None
    /\ handler = <<>>
    /\ buildCalls = 0
    /\ failedBuild = 0
    /\ takes = 0
    /\ listened = {}
    /\ delivered = {}
    /\ ctrlcReady = FALSE
    /\ terminateReady = FALSE
    /\ startState = "none"
    /\ startCalls = 0
    /\ winner = "none"
    /\ shutdownCalls = 0
    /\ shutdownArg = <<>>
    /\ shutdownResult = "none"
    /\ dataDir = FALSE
    /\ stoppedModule = 0
    /\ shutdownOutcomes = <<>>


(***************************************************************************)
(* Setup: Conf::new, setup_tracing, NodeApiHttpClient::new and             *)
(* IndexerApiHttpClient::new.  Each ends in `?`: an error leaves main.     *)
(***************************************************************************)
\* The `?` operator: an Err result is returned from main at once.
TryIgnored(r) == FALSE

Try(r) == r = "Err"

NextSetup(step) ==
    CASE step = "conf"           -> "tracing"
      [] step = "tracing"        -> "node_client"
      [] step = "node_client"    -> "indexer_client"
      [] step = "indexer_client" -> "init_node"

Setup(r) ==
    /\ \E i \in 1..Len(SetupSteps) : pc = SetupSteps[i]
    /\ failedStep' = IF r = "Err" THEN pc ELSE failedStep
    /\ IF Try(r)
       THEN /\ pc' = "done"
            /\ exit' = "Err"
       ELSE /\ pc' = NextSetup(pc)
            /\ exit' = exit
    /\ UNCHANGED <<platform, initResult, router, restRouter, handler,
                   buildCalls, failedBuild, takes, listened, delivered,
                   ctrlcReady, terminateReady, startState, startCalls, winner,
                   shutdownCalls, shutdownArg, shutdownResult,
                   dataDir, stoppedModule, shutdownOutcomes>>

\* match init::init_node(..).await { Ok(_) => {} Err(e) => { error!; return Ok(()) } }
AfterInitNodeIgnored(r) == "create_dir"

AfterInitNodeSkipsDataDir(r) == IF r = "Ok" THEN "build" ELSE "done"

AfterInitNode(r) == IF r = "Ok" THEN "create_dir" ELSE "done"

InitNode(r) ==
    /\ pc = "init_node"
    /\ initResult' = r
    /\ pc' = AfterInitNode(r)
    /\ exit' = IF pc' = "done" THEN "Ok" ELSE exit
    /\ UNCHANGED <<platform, failedStep, router, restRouter, handler,
                   buildCalls, failedBuild, takes, listened, delivered,
                   ctrlcReady, terminateReady, startState, startCalls, winner,
                   shutdownCalls, shutdownArg, shutdownResult,
                   dataDir, stoppedModule, shutdownOutcomes>>

(***************************************************************************)
(* std::fs::create_dir_all(..)?, then ModulesHandler::new and the api_ctx  *)
(* with router: Mutex::new(Some(Router::new())).                           *)
(***************************************************************************)
CreateDataDir(r) ==
    /\ pc = "create_dir"
    /\ failedStep' = IF r = "Err" THEN "create_dir" ELSE failedStep
    /\ dataDir' = (r = "Ok")
    /\ IF Try(r)
       THEN /\ pc' = "done"
            /\ exit' = "Err"
            /\ router' = router
       ELSE /\ pc' = "build"
            /\ router' = Some({})
            /\ exit' = exit
    /\ UNCHANGED <<platform, initResult, restRouter, handler,
                   buildCalls, failedBuild, takes, listened, delivered,
                   ctrlcReady, terminateReady, startState, startCalls, winner,
                   shutdownCalls, shutdownArg, shutdownResult,
                   stoppedModule, shutdownOutcomes>>

(***************************************************************************)
(* handler.build_module::<M>(ctx).await? for the seven modules built       *)
(* before the router is taken.  Ok appends the module to the handler; Err  *)
(* is returned from main by `?`.                                           *)
(***************************************************************************)
AfterBuildTakeEarly(n) == IF n = 2 THEN "take" ELSE "build"

AfterBuildSkipsLast(n) == IF n = Len(PreTakeModules) - 1 THEN "take" ELSE "build"

AfterBuild(n) == IF n = Len(PreTakeModules) THEN "take" ELSE "build"

BuildModule(r) ==
    /\ pc = "build"
    /\ buildCalls < Len(PreTakeModules)
    /\ buildCalls' = buildCalls + 1
    /\ IF r = "Ok"
       THEN /\ handler' = Append(handler, PreTakeModules[buildCalls + 1].name)
            /\ router' = RegisterRoutes(router, PreTakeModules[buildCalls + 1])
            /\ failedBuild' = failedBuild
       ELSE /\ failedBuild' = buildCalls + 1
            /\ UNCHANGED <<handler, router>>
    /\ IF Try(r)
       THEN /\ pc' = "done"
            /\ exit' = "Err"
       ELSE /\ pc' = AfterBuild(buildCalls + 1)
            /\ exit' = exit
    /\ UNCHANGED <<platform, initResult, failedStep, restRouter, takes,
                   listened, delivered, ctrlcReady, terminateReady,
                   startState, startCalls, winner, shutdownCalls, shutdownArg,
                   shutdownResult,
                   dataDir, stoppedModule, shutdownOutcomes>>

(***************************************************************************)
(* api_ctx.router.lock().expect(..).take().expect(..): the router leaves   *)
(* the slot; a slot that holds None panics.                                *)
(***************************************************************************)
TakeRouter ==
    /\ pc = "take"
    /\ LET t == OptionTake(router) IN
         /\ router' = t.slot
         /\ IF t.value.tag = "Some"
            THEN /\ restRouter' = t.value
                 /\ takes' = takes + 1
                 /\ pc' = "build_rest"
                 /\ exit' = exit
            ELSE /\ pc' = "done"
                 /\ exit' = "Panic"
                 /\ UNCHANGED <<restRouter, takes>>
    /\ UNCHANGED <<platform, initResult, failedStep, handler, buildCalls,
                   failedBuild, listened, delivered, ctrlcReady,
                   terminateReady, startState, startCalls, winner,
                   shutdownCalls, shutdownArg, shutdownResult,
                   dataDir, stoppedModule, shutdownOutcomes>>

\* handler.build_module::<RestApi>(RestApiRunContext { router, openapi, .. }).await?
AfterRestApi(p) == IF p = "unix" THEN "install" ELSE "select_enter"

BuildRestApi(r) ==
    /\ pc = "build_rest"
    /\ buildCalls' = buildCalls + 1
    /\ IF r = "Ok"
       THEN /\ handler' = Append(handler, RestApi.name)
            /\ failedBuild' = failedBuild
       ELSE /\ failedBuild' = buildCalls + 1
            /\ handler' = handler
    /\ IF Try(r)
       THEN /\ pc' = "done"
            /\ exit' = "Err"
       ELSE /\ pc' = AfterRestApi(platform)
            /\ exit' = exit
    /\ UNCHANGED <<platform, initResult, failedStep, router, restRouter,
                   takes, listened, delivered, ctrlcReady, terminateReady,
                   startState, startCalls, winner, shutdownCalls, shutdownArg,
                   shutdownResult,
                   dataDir, stoppedModule, shutdownOutcomes>>


(***************************************************************************)
(* The race.  On unix main first installs a signal stream,                 *)
(*     let mut terminate = unix::signal(unix::SignalKind::interrupt())?;   *)
(* TerminateKind is the kind that stream is created for.                   *)
(***************************************************************************)
TerminateKind == "SIGINT"

InstallSignal(r) ==
    /\ pc = "install"
    /\ failedStep' = IF r = "Err" THEN "install" ELSE failedStep
    /\ IF Try(r)
       THEN /\ pc' = "done"
            /\ exit' = "Err"
            /\ listened' = listened
       ELSE /\ listened' = listened \cup {TerminateKind}
            /\ pc' = "select_enter"
            /\ exit' = exit
    /\ UNCHANGED <<platform, initResult, router, restRouter, handler,
                   buildCalls, failedBuild, takes, delivered, ctrlcReady,
                   terminateReady, startState, startCalls, winner,
                   shutdownCalls, shutdownArg, shutdownResult,
                   dataDir, stoppedModule, shutdownOutcomes>>

(***************************************************************************)
(* tokio::select! evaluates its branch expressions: handler.start_modules()*)
(* and tokio::signal::ctrl_c() are called and their futures created.       *)
(***************************************************************************)
EnterSelect ==
    /\ pc = "select_enter"
    /\ startState' = "created"
    /\ startCalls' = startCalls + 1
    /\ listened' = listened \cup {"SIGINT"}
    /\ pc' = "select"
    /\ UNCHANGED <<platform, exit, initResult, failedStep, router, restRouter,
                   handler, buildCalls, failedBuild, takes, delivered,
                   ctrlcReady, terminateReady, winner, shutdownCalls,
                   shutdownArg, shutdownResult,
                   dataDir, stoppedModule, shutdownOutcomes>>

\* The select polls the start_modules future for the first time: modules run.
PollStart ==
    /\ pc = "select"
    /\ startState = "created"
    /\ startState' = "pending"
    /\ UNCHANGED <<platform, pc, exit, initResult, failedStep, router,
                   restRouter, handler, buildCalls, failedBuild, takes,
                   listened, delivered, ctrlcReady, terminateReady,
                   startCalls, winner, shutdownCalls, shutdownArg,
                   shutdownResult,
                   dataDir, stoppedModule, shutdownOutcomes>>

\* One of the running modules stops (with r = "Err": fails): the
\* start_modules future will complete with r.
ModulesStop(r) ==
    /\ pc = "select"
    /\ startState = "pending"
    /\ startState' = r
    /\ \E k \in 1..Len(handler) : stoppedModule' = k
    /\ UNCHANGED <<platform, pc, exit, initResult, failedStep, router,
                   restRouter, handler, buildCalls, failedBuild, takes,
                   listened, delivered, ctrlcReady, terminateReady,
                   startCalls, winner, shutdownCalls, shutdownArg,
                   shutdownResult, dataDir, shutdownOutcomes>>

(***************************************************************************)
(* The operating system delivers signal s while main is in the select.  A  *)
(* signal with a listener makes the branches waiting for it ready;  a      *)
(* signal without one has its default disposition: the process is killed.  *)
(***************************************************************************)
Wakes(branchKind, s) == branchKind = s

DeliverSignal(s) ==
    /\ pc = "select"
    /\ s \notin delivered
    /\ s = "SIGTERM" => platform = "unix"
    /\ delivered' = delivered \cup {s}
    /\ IF s \in listened
       THEN /\ ctrlcReady' = (ctrlcReady \/ Wakes("SIGINT", s))
            /\ terminateReady' =
                  (terminateReady \/ (platform = "unix" /\ Wakes(TerminateKind, s)))
            /\ UNCHANGED <<pc, exit>>
       ELSE /\ pc' = "done"
            /\ exit' = "Killed"
            /\ UNCHANGED <<ctrlcReady, terminateReady>>
    /\ UNCHANGED <<platform, initResult, failedStep, router, restRouter,
                   handler, buildCalls, failedBuild, takes, listened,
                   startState, startCalls, winner, shutdownCalls, shutdownArg,
                   shutdownResult,
                   dataDir, stoppedModule, shutdownOutcomes>>

(***************************************************************************)
(* Err(e) = handler.start_modules() => { error!(..) }                      *)
(* The future has completed.  A result that matches the pattern runs the   *)
(* branch and ends the select; one that does not disables the branch and   *)
(* the select keeps waiting for the others.                                *)
(***************************************************************************)
StartBranchMatchesAny(r) == TRUE

StartBranchMatches(r) == r = "Err"

\* Whichever branch w ran, the select is over and shutdown_modules is next.
AfterRaceFailureReturns(w) == IF w = "start_modules" THEN "return" ELSE "shutdown"

AfterRaceSignalReturns(w) == IF w = "start_modules" THEN "shutdown" ELSE "return"

AfterRace(w) == "shutdown"

SelectStart ==
    /\ pc = "select"
    /\ startState \in Results
    /\ IF StartBranchMatches(startState)
       THEN /\ startState' = "returned"
            /\ winner' = "start_modules"
            /\ pc' = AfterRace("start_modules")
       ELSE /\ startState' = "disabled"
            /\ UNCHANGED <<winner, pc>>
    /\ UNCHANGED <<platform, exit, initResult, failedStep, router, restRouter,
                   handler, buildCalls, failedBuild, takes, listened,
                   delivered, ctrlcReady, terminateReady, startCalls,
                   shutdownCalls, shutdownArg, shutdownResult,
                   dataDir, stoppedModule, shutdownOutcomes>>

\* A signal branch ends the select: the start_modules future is dropped.
DroppedKeptRunning(st) == st

Dropped(st) == IF st \in {"disabled"} THEN st ELSE "dropped"

\* _ = tokio::signal::ctrl_c() => { info!("Ctrl-C received, shutting down") }
SelectCtrlC ==
    /\ pc = "select"
    /\ ctrlcReady
    /\ winner' = "ctrl_c"
    /\ startState' = Dropped(startState)
    /\ pc' = AfterRace("ctrl_c")
    /\ UNCHANGED <<platform, exit, initResult, failedStep, router, restRouter,
                   handler, buildCalls, failedBuild, takes, listened,
                   delivered, ctrlcReady, terminateReady, startCalls,
                   shutdownCalls, shutdownArg, shutdownResult,
                   dataDir, stoppedModule, shutdownOutcomes>>

\* _ = terminate.recv() => { info!("SIGTERM received, shutting down") }
SelectTerminate ==
    /\ pc = "select"
    /\ platform = "unix"
    /\ terminateReady
    /\ winner' = "terminate"
    /\ startState' = Dropped(startState)
    /\ pc' = AfterRace("terminate")
    /\ UNCHANGED <<platform, exit, initResult, failedStep, router, restRouter,
                   handler, buildCalls, failedBuild, takes, listened,
                   delivered, ctrlcReady, terminateReady, startCalls,
                   shutdownCalls, shutdownArg, shutdownResult,
                   dataDir, stoppedModule, shutdownOutcomes>>

\* _ = handler.shutdown_modules().await;  the result is discarded.
ShutdownResultTried(r) == r = "Err"

ShutdownResultReturned(r) == FALSE

\* The sweep runs on `handler` itself: the registry main built, whichever
\* module k ended the race.
SweepRegistrySurvivors(h, k) ==
    IF k \in 1..Len(h)
    THEN [i \in 1..(Len(h) - 1) |-> IF i < k THEN h[i] ELSE h[i + 1]]
    ELSE h

SweepRegistry(h, k) == h

\* The sweep gives every module of the registry one stop attempt, each with
\* its own outcome; the aggregate is Err when some stop failed.
StopOutcomes(registry) == [1..Len(registry) -> Results]

Aggregate(outcomes) ==
    IF \E i \in DOMAIN outcomes : outcomes[i] = "Err" THEN "Err" ELSE "Ok"

ShutdownModules(r) ==
    /\ pc = "shutdown"
    /\ shutdownCalls' = shutdownCalls + 1
    /\ shutdownArg' = SweepRegistry(handler, stoppedModule)
    /\ \E o \in StopOutcomes(shutdownArg') :
          /\ Aggregate(o) = r
          /\ shutdownOutcomes' = o
    /\ shutdownResult' = r
    /\ IF ShutdownResultReturned(r)
       THEN /\ pc' = "done"
            /\ exit' = "Err"
       ELSE /\ pc' = "return"
            /\ exit' = exit
    /\ UNCHANGED <<platform, initResult, failedStep, router, restRouter,
                   handler, buildCalls, failedBuild, takes, listened,
                   delivered, ctrlcReady, terminateReady, startState,
                   startCalls, winner, dataDir, stoppedModule>>

\* Ok(())
Return ==
    /\ pc = "return"
    /\ pc' = "done"
    /\ exit' = "Ok"
    /\ UNCHANGED <<platform, initResult, failedStep, router, restRouter,
                   handler, buildCalls, failedBuild, takes, listened,
                   delivered, ctrlcReady, terminateReady, startState,
                   startCalls, winner, shutdownCalls, shutdownArg,
                   shutdownResult,
                   dataDir, stoppedModule, shutdownOutcomes>>

Next ==
    \/ \E r \in Results : Setup(r)
    \/ \E r \in Results : InitNode(r)
    \/ \E r \in Results : CreateDataDir(r)
    \/ \E r \in Results : BuildModule(r)
    \/ TakeRouter
    \/ \E r \in Results : BuildRestApi(r)
    \/ \E r \in Results : InstallSignal(r)
    \/ EnterSelect
    \/ PollStart
    \/ \E r \in Results : ModulesStop(r)
    \/ \E s \in Signals : DeliverSignal(s)
    \/ SelectStart
    \/ SelectCtrlC
    \/ SelectTerminate
    \/ \E r \in Results : ShutdownModules(r)
    \/ Return

Spec == Init /\ [][Next]_vars


(***************************************************************************)
(* main's own straight-line steps after the race are always taken: the     *)
(* runtime keeps polling main, and shutdown_modules is taken to return.    *)
(***************************************************************************)
FairSpec ==
    /\ Spec
    /\ WF_vars(\E r \in Results : ShutdownModules(r))
    /\ WF_vars(Return)

\* main has returned (it was not killed and did not panic).
Returned == pc = "done" /\ exit \in {"Ok", "Err"}

\* The select has ended with one of its branches.
RaceResolved == winner # "none"

(***************************************************************************)
(* C1.  The router slot is taken at most once: once a router has been      *)
(* yielded the slot holds None, a slot that holds None never holds a       *)
(* router again, and a take() on it yields no router.                      *)
(***************************************************************************)
C1_RouterTakenAtMostOnce ==
    /\ [](/\ takes <= 1
          /\ (takes = 1 <=> restRouter.tag = "Some")
          /\ restRouter.tag = "Some" => router = None
          /\ router = None => OptionTake(router).value.tag # "Some")
    /\ [][router = None => router' = None]_vars

C1_Witness == takes = 1 /\ router = None /\ restRouter.tag = "Some"

(***************************************************************************)
(* C2.  Every module whose context carries api_ctx is in the handler       *)
(* before the slot is taken; once the slot is taken the only module built  *)
(* is RestApi, which holds the taken router and is the last one registered.*)
(***************************************************************************)
C2_RouteWritersBuiltBeforeTake ==
    /\ [](router = None =>
            \A i \in 1..Len(AllModules) :
                AllModules[i].api => /\ i <= Len(handler)
                                     /\ handler[i] = AllModules[i].name)
    /\ [](\A i \in 1..Len(handler) :
            handler[i] = RestApi.name => /\ i = Len(handler)
                                         /\ i = Len(AllModules)
                                         /\ router = None
                                         /\ restRouter.tag = "Some")
    /\ [][(router = None /\ handler' # handler) =>
            handler' = Append(handler, RestApi.name)]_vars

C2_Witness ==
    /\ router = None
    /\ Len(handler) = Len(AllModules)
    /\ handler[Len(handler)] = RestApi.name

(***************************************************************************)
(* C3.  When init_node returns an error main returns Ok at once: no        *)
(* module exists and build_module, start_modules and shutdown_modules      *)
(* have not been called.                                                   *)
(***************************************************************************)
C3_PreflightFailureBuildsNothing ==
    initResult = "Err" =>
        /\ pc = "done"
        /\ exit = "Ok"
        /\ handler = <<>>
        /\ buildCalls = 0
        /\ startCalls = 0
        /\ shutdownCalls = 0

C3_Witness == initResult = "Err" /\ pc = "done"

(***************************************************************************)
(* C4.  When the k-th build_module call fails it is the last one made:     *)
(* the handler holds the k-1 modules built before it, main has returned,   *)
(* and start_modules and shutdown_modules have not been called.            *)
(***************************************************************************)
C4_BuildFailureHalts ==
    failedBuild # 0 =>
        /\ pc = "done"
        /\ buildCalls = failedBuild
        /\ handler = SubSeq(Names(AllModules), 1, failedBuild - 1)
        /\ startCalls = 0
        /\ shutdownCalls = 0

C4_Witness == failedBuild = 4 /\ Len(handler) = 3 /\ pc = "done"

(***************************************************************************)
(* C5, as stated.  Whenever main returns after its setup succeeded, it     *)
(* returns Ok: whether init_node failed, a build_module failed, the race   *)
(* ended with a module error or a signal, or shutdown_modules failed.      *)
(***************************************************************************)
C5_AlwaysReturnsSuccess ==
    (Returned /\ failedStep = "none") => exit = "Ok"

(***************************************************************************)
(* C5, amended.  main returns Ok when init_node failed and on every path   *)
(* through the race, whatever start_modules and shutdown_modules           *)
(* reported; it returns the error when a build_module call (or a setup     *)
(* step) failed.                                                           *)
(***************************************************************************)
C5_SuccessUnlessBuildOrSetupFails ==
    Returned => (exit = "Ok" <=> (failedBuild = 0 /\ failedStep = "none"))

C5_Witness ==
    /\ Returned
    /\ winner = "start_modules"
    /\ shutdownResult = "Err"
    /\ exit = "Ok"


(***************************************************************************)
(* C6, as stated.  With no signal delivered, whenever the select observes  *)
(* that start_modules has completed, with Ok or with Err, main leaves the  *)
(* select for the shutdown sweep.                                          *)
(***************************************************************************)
C6_AnyCompletionEndsRace ==
    [][(/\ pc = "select"
        /\ delivered = {}
        /\ startState \in Results
        /\ startState' # startState) => pc' = "shutdown"]_vars

(***************************************************************************)
(* C6, amended.  With no signal delivered, start_modules completing with   *)
(* Err ends the race and main proceeds to the shutdown sweep; completing   *)
(* with Ok does not: the branch is disabled, main stays in the select,     *)
(* and from then on only a signal branch ends the race.                    *)
(***************************************************************************)
C6_ErrCompletionEndsRace ==
    /\ [][(/\ pc = "select"
           /\ delivered = {}
           /\ startState \in Results
           /\ startState' # startState) =>
              IF startState = "Err"
              THEN pc' = "shutdown" /\ winner' = "start_modules"
              ELSE pc' = "select" /\ startState' = "disabled"]_vars
    /\ []((startState = "disabled" /\ RaceResolved) =>
              winner \in {"ctrl_c", "terminate"})

C6_Witness ==
    /\ pc = "shutdown"
    /\ winner = "start_modules"
    /\ delivered = {}

(***************************************************************************)
(* C7.  When start_modules returns Err in the race, main calls             *)
(* shutdown_modules exactly once and then returns Ok: the error never      *)
(* becomes main's result.                                                  *)
(***************************************************************************)
C7_RunFailureTriggersShutdown ==
    /\ [](winner = "start_modules" =>
            /\ exit \in {"none", "Ok"}
            /\ pc \in {"shutdown", "return", "done"}
            /\ shutdownCalls = (IF pc = "shutdown" THEN 0 ELSE 1))
    /\ (winner = "start_modules") ~>
            (pc = "done" /\ exit = "Ok" /\ shutdownCalls = 1)

C7_Witness ==
    /\ winner = "start_modules"
    /\ pc = "done"
    /\ shutdownCalls = 1
    /\ exit = "Ok"

(***************************************************************************)
(* C8.  shutdown_modules is called at most once, only after the select     *)
(* has ended with one of its branches, and never when start_modules was    *)
(* not called; when main returns after the race it has been called         *)
(* exactly once, also when a module failure and a signal were ready        *)
(* together.                                                               *)
(***************************************************************************)
C8_ShutdownExactlyOnceAfterRace ==
    /\ shutdownCalls <= 1
    /\ shutdownCalls = 1 => (RaceResolved /\ startCalls = 1)
    /\ startCalls = 0 => shutdownCalls = 0
    /\ (Returned /\ startCalls = 1) => shutdownCalls = 1
    /\ (Returned /\ startCalls = 0) => ~RaceResolved

C8_Witness ==
    /\ Returned
    /\ shutdownCalls = 1
    /\ winner = "start_modules"
    /\ ctrlcReady

(***************************************************************************)
(* C9.  On unix a terminate signal delivered during the race makes the     *)
(* terminate branch ready, as an interrupt does, and so leads to the       *)
(* shutdown sweep.                                                         *)
(***************************************************************************)
C9_TerminateTriggersShutdown ==
    (platform = "unix" /\ "SIGTERM" \in delivered) =>
        \/ terminateReady
        \/ pc \in {"shutdown", "return"}
        \/ pc = "done" /\ shutdownCalls = 1

(***************************************************************************)
(* C10.  Whichever branch ended the select, main ends in the same state:   *)
(* shutdown_modules called once on the handler holding all eight modules,  *)
(* the router taken, and Ok returned.                                      *)
(***************************************************************************)
TerminalView ==
    <<pc, exit, handler, router.tag, restRouter.tag, buildCalls, startCalls,
      shutdownCalls, shutdownArg>>

C10_RaceNeutrality ==
    (RaceResolved /\ pc = "done") =>
        TerminalView = <<"done", "Ok", Names(AllModules), "None", "Some",
                         Len(AllModules), 1, 1, Names(AllModules)>>

C10_Witness == pc = "done" /\ winner = "terminate" /\ exit = "Ok"


(***************************************************************************)
(* C11.  When module k failed in the run phase, the sweep is called on     *)
(* the whole registry: all eight modules, module k included, each get a    *)
(* stop attempt with a recorded outcome, whatever the other outcomes are.  *)
(***************************************************************************)
C11_SweepCoversEveryModule ==
    shutdownCalls = 1 =>
        /\ shutdownArg = Names(AllModules)
        /\ DOMAIN shutdownOutcomes = 1..Len(AllModules)
        /\ \A i \in 1..Len(AllModules) : shutdownOutcomes[i] \in Results
        /\ stoppedModule # 0 =>
              /\ stoppedModule \in DOMAIN shutdownOutcomes
              /\ shutdownArg[stoppedModule] = handler[stoppedModule]

C11_Witness ==
    /\ shutdownCalls = 1
    /\ winner = "start_modules"
    /\ stoppedModule = 2
    /\ shutdownOutcomes[1] = "Err"
    /\ shutdownOutcomes[2] = "Ok"
    /\ shutdownOutcomes[3] = "Ok"

(***************************************************************************)
(* C12.  Once the sweep is reached main always ends with Ok, also when     *)
(* the sweep reports failed stops: its result is discarded.                *)
(***************************************************************************)
C12_SweepAlwaysReachesStopped ==
    /\ [](shutdownCalls = 1 => /\ exit \in {"none", "Ok"}
                               /\ pc \in {"return", "done"})
    /\ (pc = "shutdown") ~> (pc = "done" /\ exit = "Ok" /\ shutdownCalls = 1)

C12_Witness ==
    /\ pc = "done"
    /\ exit = "Ok"
    /\ winner = "ctrl_c"
    /\ shutdownResult = "Err"
    /\ shutdownOutcomes[Len(AllModules)] = "Err"

(***************************************************************************)
(* C13.  The handler always holds a prefix of the eight modules in source  *)
(* order, grows by one module per step, and start_modules is called only   *)
(* once all eight have been built without a failure.                       *)
(***************************************************************************)
C13_BuildBeforeRun ==
    /\ [](/\ handler = SubSeq(Names(AllModules), 1, Len(handler))
          /\ (startCalls = 1 \/ startState # "none") =>
                /\ handler = Names(AllModules)
                /\ buildCalls = Len(AllModules)
                /\ failedBuild = 0)
    /\ [][handler' # handler =>
            /\ handler' = Append(handler, Names(AllModules)[Len(handler) + 1])
            /\ buildCalls' = buildCalls + 1
            /\ startCalls' = 0
            /\ startState' = "none"]_vars

C13_Witness ==
    /\ startState = "pending"
    /\ startCalls = 1
    /\ handler = Names(AllModules)

(***************************************************************************)
(* C14.  When configuration loading, tracing setup, client construction    *)
(* or the creation of the data directory fails, main returns the error:    *)
(* no module is built, nothing is started and no sweep runs.               *)
(***************************************************************************)
SetupFatalSteps == {SetupSteps[i] : i \in 1..Len(SetupSteps)} \cup {"create_dir"}

C14_SetupFatalAborts ==
    failedStep \in SetupFatalSteps =>
        /\ pc = "done"
        /\ exit = "Err"
        /\ handler = <<>>
        /\ buildCalls = 0
        /\ startCalls = 0
        /\ shutdownCalls = 0

C14_Witness == failedStep = "create_dir" /\ pc = "done" /\ exit = "Err"

(***************************************************************************)
(* C15.  A build_module call is made only after init_node returned Ok and  *)
(* the data directory was created.                                         *)
(***************************************************************************)
C15_PrerequisitesBeforeBuild ==
    (buildCalls > 0 \/ pc \in {"build", "build_rest"}) =>
        (initResult = "Ok" /\ dataDir)

C15_Witness == buildCalls = 1 /\ initResult = "Ok" /\ dataDir

(***************************************************************************)
(* C17.  The handler changes only by a build appending one module; from    *)
(* the call of start_modules on it does not change, and the registry the   *)
(* sweep is called on is the registry that was built.                      *)
(***************************************************************************)
C17_RegistryAppendOnly ==
    /\ [][handler' # handler =>
            /\ pc \in {"build", "build_rest"}
            /\ startCalls = 0
            /\ \E m \in {AllModules[i].name : i \in 1..Len(AllModules)} :
                  handler' = Append(handler, m)]_vars
    /\ [][startCalls = 1 => handler' = handler]_vars
    /\ [](Len(handler) = buildCalls - (IF failedBuild = 0 THEN 0 ELSE 1))
    /\ [](shutdownCalls = 1 => shutdownArg = handler)

C17_Witness ==
    /\ pc = "done"
    /\ shutdownCalls = 1
    /\ stoppedModule # 0
    /\ shutdownArg = handler
    /\ Len(handler) = Len(AllModules)

(***************************************************************************)
(* C18.  start_modules is called at most once, and whenever the sweep is   *)
(* next or has run, the start_modules future is no longer in flight: it    *)
(* has returned, was disabled after Ok, or was dropped by the select.      *)
(***************************************************************************)
StartInFlight == startState \in {"created", "pending", "Ok", "Err"}

C18_RunAndSweepNeverOverlap ==
    /\ startCalls <= 1
    /\ (pc = "shutdown" \/ shutdownCalls > 0) => ~StartInFlight
    /\ StartInFlight => (pc \in {"select", "done"} /\ shutdownCalls = 0)

C18_Witness ==
    /\ pc = "shutdown"
    /\ winner = "ctrl_c"
    /\ startState = "dropped"
    /\ stoppedModule = 0

(***************************************************************************)
(* C19.  On unix, when unix::signal fails after the eight builds, main     *)
(* returns the error: the modules are built but start_modules and          *)
(* shutdown_modules are never called.                                      *)
(***************************************************************************)
C19_SignalInstallFailure ==
    failedStep = "install" =>
        /\ platform = "unix"
        /\ pc = "done"
        /\ exit = "Err"
        /\ handler = Names(AllModules)
        /\ startCalls = 0
        /\ shutdownCalls = 0

C19_Witness == failedStep = "install" /\ Len(handler) = Len(AllModules)

(***************************************************************************)
(* C20.  A signal delivered during the race, whatever the state of         *)
(* start_modules, makes a signal branch of the select ready (or the race   *)
(* is already over): the process goes on to the sweep and is not ended     *)
(* by the signal.                                                          *)
(***************************************************************************)
C20_SignalAlwaysEndsRace ==
    delivered # {} =>
        /\ exit # "Killed"
        /\ ctrlcReady \/ terminateReady \/ RaceResolved

====
